---- MODULE Spec2Model ----
(***************************************************************************)
(* The Autocomplete component (src/unnamed/part_001) as a state machine:   *)
(* its React state (isOpen, highlightedIndex), its instance fields         *)
(* (_ignoreBlur, _ignoreFocus, _scrollOffset, _scrollTimer), the props the *)
(* caller supplies, and one action per event handler with the render and   *)
(* the lifecycle hooks that follow the handler's setState.                 *)
(***************************************************************************)
EXTENDS Integers, Sequences, FiniteSets, TLC

VARIABLES
    props,             \* this.props (props.items is the caller's array object)
    supplied,          \* the contents of props.items when the caller supplied it
    isOpen,            \* this.state.isOpen
    highlightedIndex,  \* this.state.highlightedIndex (Null or a 0-based index)
    ignoreBlur,        \* this._ignoreBlur
    ignoreFocus,       \* this._ignoreFocus
    scrollOffset,      \* this._scrollOffset ("null" or "xy")
    scrollTimer,       \* this._scrollTimer (Null or a timer handle)
    timers,            \* the timer handles whose callback is still scheduled
    focused,           \* the input is document.activeElement
    pendingFocus,      \* the focus event dispatched by refs.input.focus(), not yet handled
    menu,              \* the item elements of the last render (<<>>: no menu rendered)
    ariaExpanded,      \* the aria-expanded attribute the last render gave the input
    mounted,           \* FALSE once componentWillUnmount has run
    lastEvent,         \* the event handled by the last step
    eventArg,          \* its argument: the keyCode of Enter, the index of an item event
    selectLog,         \* the props.onSelect calls made by the last step
    visLog,            \* the props.onMenuVisibilityChange calls made by the last step
    extLog,            \* the inputProps.onBlur / onFocus calls made by the last step
    timerLog           \* the deferred scroll-restore callbacks run by the last step

vars == <<props, supplied, isOpen, highlightedIndex, ignoreBlur, ignoreFocus,
          scrollOffset, scrollTimer, timers, focused, pendingFocus, menu,
          ariaExpanded, mounted, lastEvent, eventArg, selectLog, visLog, extLog, timerLog>>

----------------------------------------------------------------------------
\* Bounds of the model.

\* the longest items collection the caller supplies
MaxItems == 3
\* the timer handles the environment hands out are 1..MaxTimers
MaxTimers == 2

\* highlightedIndex: null (the source's -1 stand-in in ArrowDown is the same number)
Null == -1
\* the keyCode of the literal Enter keystroke
EnterKeyCode == 13
\* the keyCode of an IME composition confirmation
ImeKeyCode == 229

----------------------------------------------------------------------------
\* Items and strings.  A string is a sequence of one-character strings.

Labels ==
    << <<"a","p","p","l","e">>,
       <<"b","a","n","a","n","a">>,
       <<"c","h","e","r","r","y">> >>

ItemIds == 1..Len(Labels)

\* An item is opaque to the component; the caller's accessor reads its label.
Item(k) == [id |-> k, label |-> Labels[k]]

Pool == {Item(k) : k \in ItemIds}

\* items[i] of an index outside the array
Undefined == [id |-> 0, label |-> <<>>]

getItemValue(item) == item.label

\* JavaScript array indexing, 0-based
At(arr, i) == IF i >= 0 /\ i < Len(arr) THEN arr[i + 1] ELSE Undefined

toLowerCaseChar(c) ==
    CASE c = "A" -> "a"
      [] c = "P" -> "p"
      [] c = "B" -> "b"
      [] OTHER -> c

\* toLowerCase leaving every letter as it is
toLowerCaseIdentity(s) == s

toLowerCase(s) == [i \in 1..Len(s) |-> toLowerCaseChar(s[i])]

\* String.prototype.indexOf: the first 0-based position of needle in hay, or -1
indexOf(hay, needle) ==
    LET hits == {i \in 0..(Len(hay) - Len(needle)) :
                    SubSeq(hay, i + 1, i + Len(needle)) = needle}
    IN  IF hits = {} THEN -1 ELSE CHOOSE i \in hits : \A j \in hits : i <= j

----------------------------------------------------------------------------
\* The caller's callbacks.

\* props.shouldItemRender(item, value); kind "absent" is no predicate supplied.
\* "prefix" keeps the items whose label starts with the value, whatever the
\* letter case; "set" keeps the items of p.keep whatever the value.
shouldItemRender(p, item, value) ==
    CASE p.kind = "prefix" ->
            indexOf(toLowerCase(getItemValue(item)), toLowerCase(value)) = 0
      [] p.kind = "set" -> item.id \in p.keep
      [] OTHER -> TRUE

\* props.isItemSelectable(item): the predicate holds of the ids in sel
isItemSelectable(sel, item) == item.id \in sel

\* props.sortItems(a, b, value): a comparator, negative when a goes first
sortItems(a, b, value) == a.id - b.id

----------------------------------------------------------------------------
\* getFilteredItems (lines 406-418).

\* filter building its result back to front
RECURSIVE filterReversed(_, _, _)
filterReversed(arr, p, value) ==
    IF arr = <<>> THEN <<>>
    ELSE IF shouldItemRender(p, Head(arr), value)
         THEN filterReversed(Tail(arr), p, value) \o <<Head(arr)>>
         ELSE filterReversed(Tail(arr), p, value)

\* Array.prototype.filter: a new array of the elements the predicate keeps
RECURSIVE filter(_, _, _)
filter(arr, p, value) ==
    IF arr = <<>> THEN <<>>
    ELSE IF shouldItemRender(p, Head(arr), value)
         THEN <<Head(arr)>> \o filter(Tail(arr), p, value)
         ELSE filter(Tail(arr), p, value)

\* insert x into the sorted array after every element that does not compare greater
RECURSIVE insertSorted(_, _, _)
insertSorted(arr, x, value) ==
    IF arr = <<>> THEN <<x>>
    ELSE IF sortItems(Head(arr), x, value) <= 0
         THEN <<Head(arr)>> \o insertSorted(Tail(arr), x, value)
         ELSE <<x>> \o arr

\* Array.prototype.sort with the caller's comparator (stable)
RECURSIVE sort(_, _)
sort(arr, value) ==
    IF arr = <<>> THEN <<>>
    ELSE insertSorted(sort(SubSeq(arr, 1, Len(arr) - 1), value), arr[Len(arr)], value)

\* the array getFilteredItems returns
getFilteredItems(p) ==
    LET kept == IF p.shouldItemRender.kind # "absent"
                THEN filter(p.items, p.shouldItemRender, p.value)
                ELSE p.items
    IN  IF p.sortItems THEN sort(kept, p.value) ELSE kept

\* the contents of the caller's array p.items after getFilteredItems(p) ran:
\* items.sort sorts in place, and without a predicate `items` is p.items itself
itemsAfterFilter(p) ==
    IF p.sortItems /\ p.shouldItemRender.kind = "absent"
    THEN sort(p.items, p.value)
    ELSE p.items

\* isOpen() reading the state whether or not the caller supplies open
isOpenFnIgnoresFlag(p, stateIsOpen) == stateIsOpen

\* isOpen() (lines 599-601)
isOpenFn(p, stateIsOpen) ==
    IF p.open # "absent" THEN p.open = "true" ELSE stateIsOpen

----------------------------------------------------------------------------
\* The keyboard-navigation index arithmetic.

\* the for loop of keyDownHandlers.ArrowDown (lines 316-322), from iteration i
RECURSIVE arrowDownLoop(_, _, _, _)
arrowDownLoop(items, sel, index, i) ==
    IF i >= Len(items) THEN index
    ELSE LET p == (index + i + 1) % Len(items)
         IN  IF isItemSelectable(sel, At(items, p)) THEN p
             ELSE arrowDownLoop(items, sel, index, i + 1)

\* ArrowDown taking the next index whether or not its item is selectable
arrowDownIndexNoSkip(items, sel, hi) ==
    ((IF hi = Null THEN -1 ELSE hi) + 1) % Len(items)

\* the index ArrowDown computes (lines 314-322); items is not empty
arrowDownIndex(items, sel, hi) ==
    arrowDownLoop(items, sel, IF hi = Null THEN -1 ELSE hi, 0)

\* the for loop of keyDownHandlers.ArrowUp (lines 337-343), from iteration i
RECURSIVE arrowUpLoop(_, _, _, _)
arrowUpLoop(items, sel, index, i) ==
    IF i >= Len(items) THEN index
    ELSE LET p == (index - (1 + i) + Len(items)) % Len(items)
         IN  IF isItemSelectable(sel, At(items, p)) THEN p
             ELSE arrowUpLoop(items, sel, index, i + 1)

\* the index ArrowUp computes (lines 335-343); items is not empty
arrowUpIndex(items, sel, hi) ==
    arrowUpLoop(items, sel, IF hi = Null THEN Len(items) ELSE hi, 0)

\* the for loop of maybeAutoCompleteText (lines 425-428), from iteration i
RECURSIVE autoCompleteLoop(_, _, _, _)
autoCompleteLoop(items, sel, index, i) ==
    IF i >= Len(items) THEN index
    ELSE IF isItemSelectable(sel, At(items, index)) THEN index
         ELSE autoCompleteLoop(items, sel, (index + 1) % Len(items), i + 1)

\* maybeAutoCompleteText without the value !== "" test of line 433
maybeAutoCompleteTextEmptyMatches(hi, p) ==
    LET items == getFilteredItems(p)
        index == autoCompleteLoop(items, p.isItemSelectable,
                                  IF hi = Null THEN 0 ELSE hi, 0)
        matched == index < Len(items)
                   /\ isItemSelectable(p.isItemSelectable, At(items, index))
    IN  IF matched
           /\ indexOf(toLowerCase(getItemValue(At(items, index))),
                      toLowerCase(p.value)) = 0
        THEN index
        ELSE Null

\* maybeAutoCompleteText(state, props) (lines 420-442): the new highlightedIndex
maybeAutoCompleteText(hi, p) ==
    LET items == getFilteredItems(p)
        index == autoCompleteLoop(items, p.isItemSelectable,
                                  IF hi = Null THEN 0 ELSE hi, 0)
        matched == index < Len(items)
                   /\ isItemSelectable(p.isItemSelectable, At(items, index))
    IN  IF p.value # <<>> /\ matched
           /\ indexOf(toLowerCase(getItemValue(At(items, index))),
                      toLowerCase(p.value)) = 0
        THEN index
        ELSE Null

\* ensureHighlightedIndex comparing with > instead of >=
ensureHighlightedIndexOffByOne(hi, p) ==
    IF hi # Null /\ hi > Len(getFilteredItems(p)) THEN Null ELSE hi

\* ensureHighlightedIndex(state, props) (lines 444-448): the new highlightedIndex.
\* A null index compares as 0 and can only be replaced by null.
ensureHighlightedIndex(hi, p) ==
    IF hi # Null /\ hi >= Len(getFilteredItems(p)) THEN Null ELSE hi

\* the state updaters componentWillReceiveProps queues (lines 246-257), applied
\* in order to the state with the next props nextProps
willReceivePropsEnsures(hi) == hi # Null

willReceivePropsAutoCompletes(p, hi, nextProps) ==
    nextProps.autoHighlight /\ (p.value # nextProps.value \/ hi = Null)

componentWillReceiveProps(p, hi, nextProps) ==
    LET ensured == IF willReceivePropsEnsures(hi)
                   THEN ensureHighlightedIndex(hi, nextProps) ELSE hi
    IN  IF willReceivePropsAutoCompletes(p, hi, nextProps)
        THEN maybeAutoCompleteText(ensured, nextProps) ELSE ensured

----------------------------------------------------------------------------
\* Render and commit.

\* props p after a getFilteredItems(p) call sorted the caller's array in place
touch(p) == [p EXCEPT !.items = itemsAfterFilter(p)]

\* the item elements renderMenu builds (lines 489-504): each carries its item and
\* whether onMouseEnter/onClick were attached; nothing is built when closed (line 636)
renderMenu(p, stateIsOpen) ==
    IF isOpenFn(p, stateIsOpen)
    THEN LET items == getFilteredItems(p)
         IN  [i \in 1..Len(items) |->
                [item |-> items[i],
                 handlers |-> isItemSelectable(p.isItemSelectable, items[i])]]
    ELSE <<>>

\* componentDidUpdate passing the previous isOpen to onMenuVisibilityChange
componentDidUpdateReportsPrevious(prevIsOpen, stateIsOpen) ==
    IF prevIsOpen # stateIsOpen THEN <<prevIsOpen>> ELSE <<>>

\* componentDidUpdate (lines 273-275): the onMenuVisibilityChange calls
componentDidUpdate(prevIsOpen, stateIsOpen) ==
    IF prevIsOpen # stateIsOpen THEN <<stateIsOpen>> ELSE <<>>

\* A handler that called setState: the state becomes (o, h), the component
\* renders with props p, componentDidUpdate runs, then the setState callback.
Update(ev, arg, p, o, h, sel, ext) ==
    /\ lastEvent' = ev
    /\ eventArg' = arg
    /\ isOpen' = o
    /\ highlightedIndex' = h
    /\ props' = IF isOpenFn(p, o) THEN touch(p) ELSE p
    /\ menu' = renderMenu(p, o)
    /\ ariaExpanded' = isOpenFn(p, o)
    /\ visLog' = componentDidUpdate(isOpen, o)
    /\ selectLog' = sel
    /\ extLog' = ext
    /\ timerLog' = <<>>

\* A handler that returned without setState: no render; p is props, sorted in
\* place if the handler called getFilteredItems.
NoUpdate(ev, arg, p) ==
    /\ lastEvent' = ev
    /\ eventArg' = arg
    /\ props' = p
    /\ UNCHANGED <<isOpen, highlightedIndex, menu, ariaExpanded>>
    /\ visLog' = <<>>
    /\ selectLog' = <<>>
    /\ extLog' = <<>>
    /\ timerLog' = <<>>

\* the instance fields and the DOM focus a handler leaves alone
KeepFields == UNCHANGED <<ignoreBlur, ignoreFocus, scrollOffset, scrollTimer, timers,
                          focused, pendingFocus, mounted, supplied>>

KeepTimers == UNCHANGED <<ignoreFocus, scrollOffset, scrollTimer, timers,
                          focused, pendingFocus, mounted, supplied>>

\* an event can be delivered: the component is mounted and no handler is running
Idle == mounted /\ ~pendingFocus

----------------------------------------------------------------------------
\* What the caller may supply.

\* the sequences of distinct items, no longer than n
RECURSIVE ListsUpTo(_)
ListsUpTo(n) ==
    IF n = 0 THEN {<<>>}
    ELSE LET shorter == ListsUpTo(n - 1)
             longest == {l \in shorter : Len(l) = n - 1}
         IN  shorter \cup
             UNION {{Append(l, x) : x \in Pool \ {l[i] : i \in 1..Len(l)}} :
                    l \in longest}

ItemLists == ListsUpTo(MaxItems)

NoPredicate == [kind |-> "absent", keep |-> {}]
PrefixPredicate == [kind |-> "prefix", keep |-> {}]
SetPredicate(S) == [kind |-> "set", keep |-> S]

\* inputProps: whether the caller supplied onBlur and onFocus handlers
NoHandlers == [onBlur |-> FALSE, onFocus |-> FALSE]
BothHandlers == [onBlur |-> TRUE, onFocus |-> TRUE]

\* the props over a universe U: a record of the sets each prop is drawn from
PropsIn(U) ==
    [items : U.items, value : U.value, shouldItemRender : U.shouldItemRender,
     isItemSelectable : U.isItemSelectable, sortItems : U.sortItems,
     autoHighlight : U.autoHighlight, selectOnBlur : U.selectOnBlur,
     open : U.open, inputProps : U.inputProps]

\* the props the caller can pass on a re-render: one prop differs
NextPropsIn(U, p) ==
    {[p EXCEPT !.items = x] : x \in U.items}
    \cup {[p EXCEPT !.value = x] : x \in U.value}
    \cup {[p EXCEPT !.shouldItemRender = x] : x \in U.shouldItemRender}
    \cup {[p EXCEPT !.isItemSelectable = x] : x \in U.isItemSelectable}
    \cup {[p EXCEPT !.sortItems = x] : x \in U.sortItems}
    \cup {[p EXCEPT !.autoHighlight = x] : x \in U.autoHighlight}
    \cup {[p EXCEPT !.selectOnBlur = x] : x \in U.selectOnBlur}
    \cup {[p EXCEPT !.open = x] : x \in U.open}
    \cup {[p EXCEPT !.inputProps = x] : x \in U.inputProps}

\* the text values the caller passes: empty, a prefix of "apple" in another
\* letter case, and a prefix of "banana"
Values == { <<>>, <<"A","p">>, <<"b">> }

\* the isItemSelectable predicates: every item, every item but banana, no item
SelectableSets == {ItemIds, ItemIds \ {2}, {}}

\* The universe of the main specification: the items, the value, the two
\* predicates, autoHighlight and the open flag vary; there is no comparator,
\* selectOnBlur is off and inputProps has no handlers.
UMain ==
    [items |-> ItemLists, value |-> Values,
     shouldItemRender |-> {NoPredicate, PrefixPredicate},
     isItemSelectable |-> SelectableSets,
     sortItems |-> {FALSE}, autoHighlight |-> BOOLEAN, selectOnBlur |-> {FALSE},
     open |-> {"absent", "true", "false"}, inputProps |-> {NoHandlers}]

----------------------------------------------------------------------------
\* Construction and mount (lines 215-239, 259-263): closed, no highlight, the
\* flags cleared, and the first render with the caller's props.

InitWith(p) ==
    /\ supplied = p.items
    /\ props = (IF isOpenFn(p, FALSE) THEN touch(p) ELSE p)
    /\ isOpen = FALSE
    /\ highlightedIndex = Null
    /\ ignoreBlur = FALSE
    /\ ignoreFocus = FALSE
    /\ scrollOffset = "null"
    /\ scrollTimer = Null
    /\ timers = {}
    /\ focused = FALSE
    /\ pendingFocus = FALSE
    /\ menu = renderMenu(p, FALSE)
    /\ ariaExpanded = isOpenFn(p, FALSE)
    /\ mounted = TRUE
    /\ lastEvent = "Mount"
    /\ eventArg = Null
    /\ selectLog = <<>>
    /\ visLog = <<>>
    /\ extLog = <<>>
    /\ timerLog = <<>>

InitIn(U) == \E p \in PropsIn(U) : InitWith(p)

----------------------------------------------------------------------------
\* The caller re-renders with new props: componentWillReceiveProps(nextProps),
\* then the render and componentDidUpdate.

SetPropsIn(U) ==
    /\ Idle
    /\ \E nextProps \in NextPropsIn(U, props) :
          LET ran == willReceivePropsEnsures(highlightedIndex)
                     \/ willReceivePropsAutoCompletes(props, highlightedIndex, nextProps)
          IN  /\ supplied' = nextProps.items
              /\ Update("Props", Null, IF ran THEN touch(nextProps) ELSE nextProps, isOpen,
                        componentWillReceiveProps(props, highlightedIndex, nextProps),
                        <<>>, <<>>)
    /\ UNCHANGED <<ignoreBlur, ignoreFocus, scrollOffset, scrollTimer, timers,
                   focused, pendingFocus, mounted>>

----------------------------------------------------------------------------
\* handleKeyDown (lines 295-303) and keyDownHandlers (lines 309-404).

CanKey == Idle /\ focused

ArrowDown ==
    /\ CanKey
    /\ LET items == getFilteredItems(props)
           index == arrowDownIndex(items, props.isItemSelectable, highlightedIndex)
       IN  IF items # <<>> /\ index > -1 /\ index # highlightedIndex
           THEN Update("ArrowDown", Null, touch(props), TRUE, index, <<>>, <<>>)
           ELSE NoUpdate("ArrowDown", Null, touch(props))
    /\ KeepFields

ArrowUp ==
    /\ CanKey
    /\ LET items == getFilteredItems(props)
           index == arrowUpIndex(items, props.isItemSelectable, highlightedIndex)
       IN  IF items # <<>> /\ index # Len(items)
           THEN Update("ArrowUp", Null, touch(props), TRUE, index, <<>>, <<>>)
           ELSE NoUpdate("ArrowUp", Null, touch(props))
    /\ KeepFields

\* Enter selecting the first item of the view instead of the highlighted one
enterSelectionFirst(p, hi) ==
    IF hi = Null THEN <<>>
    ELSE LET item == At(getFilteredItems(p), 0)
         IN  << <<getItemValue(item), item>> >>

\* the onSelect call of Enter's setState callback (lines 373-386); none is
\* made without a highlight (lines 360-369)
enterSelection(p, hi) ==
    IF hi = Null THEN <<>>
    ELSE LET item == At(getFilteredItems(p), hi)
         IN  << <<getItemValue(item), item>> >>

\* Enter leaving the menu open when nothing is highlighted
enterStateStaysOpen(hi) ==
    IF hi = Null THEN [isOpen |-> TRUE, highlightedIndex |-> hi]
    ELSE [isOpen |-> FALSE, highlightedIndex |-> Null]

\* the state Enter sets when the menu is open (lines 362-365, 377-381)
enterState(hi) ==
    IF hi = Null THEN [isOpen |-> FALSE, highlightedIndex |-> hi]
    ELSE [isOpen |-> FALSE, highlightedIndex |-> Null]

Enter(keyCode) ==
    /\ CanKey
    /\ IF keyCode # EnterKeyCode
       THEN /\ NoUpdate("Enter", keyCode, props)
            /\ UNCHANGED ignoreBlur
       ELSE /\ ignoreBlur' = FALSE
            /\ IF ~isOpenFn(props, isOpen)
               THEN NoUpdate("Enter", keyCode, props)
               ELSE Update("Enter", keyCode,
                           IF highlightedIndex = Null THEN props ELSE touch(props),
                           enterState(highlightedIndex).isOpen,
                           enterState(highlightedIndex).highlightedIndex,
                           enterSelection(props, highlightedIndex), <<>>)
    /\ KeepTimers

\* Escape closing the menu but keeping the highlight
escapeStateKeepsHighlight == [isOpen |-> FALSE, highlightedIndex |-> highlightedIndex]

\* the state keyDownHandlers.Escape sets (lines 394-397)
escapeState == [isOpen |-> FALSE, highlightedIndex |-> Null]

\* Escape leaving the ignore-blur flag as it is
EscapeKeepsIgnoreBlur ==
    /\ CanKey
    /\ UNCHANGED ignoreBlur
    /\ Update("Escape", Null, props, FALSE, Null, <<>>, <<>>)
    /\ KeepTimers

Escape ==
    /\ CanKey
    /\ ignoreBlur' = FALSE
    /\ Update("Escape", Null, props, escapeState.isOpen, escapeState.highlightedIndex,
              <<>>, <<>>)
    /\ KeepTimers

Tab ==
    /\ CanKey
    /\ ignoreBlur' = FALSE
    /\ NoUpdate("Tab", Null, props)
    /\ KeepTimers

\* a key with no entry in keyDownHandlers
OtherKey ==
    /\ CanKey
    /\ IF ~isOpenFn(props, isOpen)
       THEN Update("Key", Null, props, TRUE, highlightedIndex, <<>>, <<>>)
       ELSE NoUpdate("Key", Null, props)
    /\ KeepFields

----------------------------------------------------------------------------
\* handleInputBlur (lines 520-546).

\* the blur selecting the highlighted item whether or not selectOnBlur is set
blurSelectionAlways(p, hi) ==
    IF hi # Null
    THEN LET item == At(getFilteredItems(p), hi)
         IN  << <<getItemValue(item), item>> >>
    ELSE <<>>

\* the onSelect call of the blur's setState callback (lines 529-534)
blurSelection(p, hi) ==
    IF p.selectOnBlur /\ hi # Null
    THEN LET item == At(getFilteredItems(p), hi)
         IN  << <<getItemValue(item), item>> >>
    ELSE <<>>

\* a blur that is never swallowed
blurNeverIgnored == FALSE

\* the blur is swallowed (line 521)
blurIgnored == ignoreBlur

\* a swallowed blur leaving no ignore-next-focus mark
blurIgnoreFocusMarkMissing == FALSE

\* the ignore-next-focus mark a swallowed blur leaves (line 522)
blurIgnoreFocusMark == TRUE

Blur ==
    /\ Idle
    /\ focused
    /\ IF blurIgnored
       THEN \* lines 522-525: refs.input.focus() puts the focus back and
            \* dispatches the focus event that handleInputFocus handles next
            /\ ignoreFocus' = blurIgnoreFocusMark
            /\ scrollOffset' = "xy"
            /\ focused' = TRUE
            /\ pendingFocus' = TRUE
            /\ NoUpdate("Blur", Null, props)
       ELSE /\ focused' = FALSE
            /\ Update("Blur", Null,
                      IF props.selectOnBlur /\ highlightedIndex # Null
                      THEN touch(props) ELSE props,
                      FALSE, Null,
                      blurSelection(props, highlightedIndex),
                      IF props.inputProps.onBlur THEN <<"onBlur">> ELSE <<>>)
            /\ UNCHANGED <<ignoreFocus, scrollOffset, pendingFocus>>
    /\ UNCHANGED <<ignoreBlur, scrollTimer, timers, mounted, supplied>>

----------------------------------------------------------------------------
\* handleInputFocus (lines 548-577).

\* a handle setTimeout can return: one that names no scheduled callback
FreeHandles(scheduled) == (1..MaxTimers) \ scheduled

\* clearTimeout cancelling nothing
clearTimeoutCancelsNothing(scheduled, handle) == scheduled

\* the callbacks still scheduled after clearTimeout(handle) (line 565)
clearTimeout(scheduled, handle) == scheduled \ {handle}

Focus ==
    /\ mounted
    /\ pendingFocus \/ ~focused
    /\ focused' = TRUE
    /\ pendingFocus' = FALSE
    /\ IF ignoreFocus
       THEN /\ FreeHandles(clearTimeout(timers, scrollTimer)) # {}
            /\ \E h \in FreeHandles(clearTimeout(timers, scrollTimer)) :
                  /\ \A g \in FreeHandles(clearTimeout(timers, scrollTimer)) : h <= g
                  /\ scrollTimer' = h
                  /\ timers' = clearTimeout(timers, scrollTimer) \cup {h}
            /\ ignoreFocus' = FALSE
            /\ scrollOffset' = "null"
            /\ NoUpdate("Focus", Null, props)
       ELSE /\ Update("Focus", Null, props, TRUE, highlightedIndex, <<>>,
                      IF props.inputProps.onFocus THEN <<"onFocus">> ELSE <<>>)
            /\ UNCHANGED <<ignoreFocus, scrollOffset, scrollTimer, timers>>
    /\ UNCHANGED <<ignoreBlur, mounted, supplied>>

\* the deferred callback of lines 566-569 runs
TimerFire ==
    /\ ~pendingFocus
    /\ \E h \in timers :
          /\ timers' = timers \ {h}
          /\ scrollTimer' = Null
          /\ timerLog' = <<h>>
    /\ lastEvent' = "Timer"
    /\ eventArg' = Null
    /\ selectLog' = <<>>
    /\ visLog' = <<>>
    /\ extLog' = <<>>
    /\ UNCHANGED <<props, supplied, isOpen, highlightedIndex, ignoreBlur, ignoreFocus,
                   scrollOffset, focused, pendingFocus, menu, ariaExpanded, mounted>>

----------------------------------------------------------------------------
\* handleInputClick (lines 584-588).

InputClick ==
    /\ Idle
    /\ IF focused /\ ~isOpenFn(props, isOpen)
       THEN Update("Click", Null, props, TRUE, highlightedIndex, <<>>, <<>>)
       ELSE NoUpdate("Click", Null, props)
    /\ KeepFields

----------------------------------------------------------------------------
\* The handlers renderMenu attaches (lines 488-518).

\* the menu element is rendered
MenuShown == isOpenFn(props, isOpen)

\* onMouseEnter / onTouchStart of the menu (lines 514-515)
MenuMouseEnter ==
    /\ Idle /\ MenuShown
    /\ ignoreBlur' = TRUE
    /\ NoUpdate("MenuEnter", Null, props)
    /\ KeepTimers

\* onMouseLeave of the menu (line 516)
MenuMouseLeave ==
    /\ Idle /\ MenuShown
    /\ ignoreBlur' = FALSE
    /\ NoUpdate("MenuLeave", Null, props)
    /\ KeepTimers

\* onMouseEnter of the item element at index: highlightItemFromMouse (lines 464-466)
ItemMouseEnter ==
    /\ Idle /\ MenuShown
    /\ \E index \in 0..(Len(menu) - 1) :
          /\ menu[index + 1].handlers
          /\ Update("ItemEnter", index, props, isOpen, index, <<>>, <<>>)
    /\ KeepFields

\* selectItemFromMouse closing the menu but keeping the highlight
mouseSelectStateKeepsHighlight ==
    [isOpen |-> FALSE, highlightedIndex |-> highlightedIndex]

\* the state selectItemFromMouse sets (lines 474-477)
mouseSelectState == [isOpen |-> FALSE, highlightedIndex |-> Null]

\* the onSelect call of selectItemFromMouse (lines 469, 479)
mouseSelection(item) == << <<getItemValue(item), item>> >>

\* onClick of the item element at index: selectItemFromMouse (lines 468-482)
ItemClick ==
    /\ Idle /\ MenuShown
    /\ \E index \in 0..(Len(menu) - 1) :
          /\ menu[index + 1].handlers
          /\ Update("ItemClick", index, props, mouseSelectState.isOpen,
                    mouseSelectState.highlightedIndex,
                    mouseSelection(menu[index + 1].item), <<>>)
    /\ ignoreBlur' = FALSE
    /\ KeepTimers

----------------------------------------------------------------------------
\* componentWillUnmount (lines 241-244).

Unmount ==
    /\ Idle
    /\ timers' = clearTimeout(timers, scrollTimer)
    /\ scrollTimer' = Null
    /\ mounted' = FALSE
    /\ lastEvent' = "Unmount"
    /\ eventArg' = Null
    /\ selectLog' = <<>>
    /\ visLog' = <<>>
    /\ extLog' = <<>>
    /\ timerLog' = <<>>
    /\ UNCHANGED <<props, supplied, isOpen, highlightedIndex, ignoreBlur, ignoreFocus,
                   scrollOffset, focused, pendingFocus, menu, ariaExpanded>>

----------------------------------------------------------------------------
\* The specification: the events the component handles while mounted.

\* The zero-delay callback of line 566 runs before the next event is delivered
\* (no handler but handleInputFocus and componentWillUnmount reads the timer).
Quiet == timers = {}

Init == InitIn(UMain)

SetProps == Quiet /\ SetPropsIn(UMain)

KeyEnter == \E keyCode \in {EnterKeyCode, ImeKeyCode} : Enter(keyCode)

Next ==
    \/ SetProps
    \/ Quiet /\ ArrowDown
    \/ Quiet /\ ArrowUp
    \/ Quiet /\ KeyEnter
    \/ Quiet /\ Escape
    \/ Quiet /\ Tab
    \/ Quiet /\ OtherKey
    \/ Quiet /\ Blur
    \/ Quiet /\ Focus
    \/ Quiet /\ InputClick
    \/ Quiet /\ MenuMouseEnter
    \/ Quiet /\ MenuMouseLeave
    \/ Quiet /\ ItemMouseEnter
    \/ Quiet /\ ItemClick
    \/ TimerFire

Spec == Init /\ [][Next]_vars

----------------------------------------------------------------------------
\* The specification of the filtered view: every predicate over the items (the
\* prefix predicate and the predicates that keep a fixed set) with and without
\* a comparator, under the events that render or read the view.

UView ==
    [items |-> ItemLists, value |-> Values,
     shouldItemRender |-> {NoPredicate, PrefixPredicate}
                          \cup {SetPredicate(S) : S \in SUBSET ItemIds},
     isItemSelectable |-> {ItemIds},
     sortItems |-> BOOLEAN, autoHighlight |-> {TRUE}, selectOnBlur |-> {FALSE},
     open |-> {"absent"}, inputProps |-> {NoHandlers}]

InitView == InitIn(UView)

SetPropsView == SetPropsIn(UView)

NextView ==
    \/ SetPropsView
    \/ Focus
    \/ Blur
    \/ ArrowDown
    \/ ArrowUp
    \/ KeyEnter
    \/ Escape

SpecView == InitView /\ [][NextView]_vars

----------------------------------------------------------------------------
\* The specification of the focus, blur and timer coordination: selectOnBlur,
\* the caller's onBlur/onFocus handlers and the open flag vary, the deferred
\* callback runs at any later time, and the component can be unmounted.

UFocus ==
    [items |-> {<<Item(1), Item(2), Item(3)>>, <<Item(2), Item(1)>>},
     value |-> {<<>>, <<"A","p">>},
     shouldItemRender |-> {NoPredicate},
     isItemSelectable |-> {ItemIds, ItemIds \ {2}},
     sortItems |-> {FALSE}, autoHighlight |-> {TRUE}, selectOnBlur |-> BOOLEAN,
     open |-> {"absent", "true", "false"},
     inputProps |-> {NoHandlers, BothHandlers}]

InitFocus == InitIn(UFocus)

SetPropsFocus == SetPropsIn(UFocus)

NextFocus ==
    \/ SetPropsFocus
    \/ ArrowDown
    \/ ArrowUp
    \/ KeyEnter
    \/ Escape
    \/ Tab
    \/ OtherKey
    \/ Blur
    \/ Focus
    \/ InputClick
    \/ MenuMouseEnter
    \/ MenuMouseLeave
    \/ ItemMouseEnter
    \/ ItemClick
    \/ TimerFire
    \/ Unmount

SpecFocus == InitFocus /\ [][NextFocus]_vars

----------------------------------------------------------------------------
\* The specification of the auto-highlight recomputation: the value is spelled
\* in several letter cases, the items, both predicates and autoHighlight vary,
\* and the highlight is moved by the keyboard and the pointer between the
\* prop changes.

\* the spellings of "ap"
ApSpellings == { <<"a","p">>, <<"A","p">>, <<"A","P">> }

UAuto ==
    [items |-> {<<Item(1), Item(2), Item(3)>>, <<Item(2), Item(1)>>},
     value |-> {<<>>, <<"b">>} \cup ApSpellings,
     shouldItemRender |-> {NoPredicate, PrefixPredicate},
     isItemSelectable |-> {ItemIds, ItemIds \ {2}},
     sortItems |-> {FALSE}, autoHighlight |-> BOOLEAN, selectOnBlur |-> {FALSE},
     open |-> {"absent"}, inputProps |-> {NoHandlers}]

InitAuto == InitIn(UAuto)

SetPropsAuto == SetPropsIn(UAuto)

NextAuto ==
    \/ SetPropsAuto
    \/ ArrowDown
    \/ ArrowUp
    \/ KeyEnter
    \/ Escape
    \/ Blur
    \/ Focus
    \/ InputClick
    \/ ItemMouseEnter
    \/ ItemClick

SpecAuto == InitAuto /\ [][NextAuto]_vars

----------------------------------------------------------------------------
\* The specification of the component used without the open flag: the pointer
\* enters and leaves the rendered menu, the input is blurred and focused, the
\* deferred callback runs at any later time, and the items (the empty
\* collection included), the value, both predicates and selectOnBlur vary.

UNoFlag ==
    [items |-> {<<>>, <<Item(1), Item(2), Item(3)>>, <<Item(2), Item(1)>>},
     value |-> {<<>>, <<"A","p">>},
     shouldItemRender |-> {NoPredicate, PrefixPredicate},
     isItemSelectable |-> {ItemIds, ItemIds \ {2}},
     sortItems |-> {FALSE}, autoHighlight |-> {TRUE}, selectOnBlur |-> BOOLEAN,
     open |-> {"absent"}, inputProps |-> {NoHandlers}]

InitNoFlag == InitIn(UNoFlag)

SetPropsNoFlag == SetPropsIn(UNoFlag)

NextNoFlag ==
    \/ SetPropsNoFlag
    \/ ArrowDown
    \/ ArrowUp
    \/ KeyEnter
    \/ Escape
    \/ Tab
    \/ OtherKey
    \/ Blur
    \/ Focus
    \/ InputClick
    \/ MenuMouseEnter
    \/ MenuMouseLeave
    \/ ItemMouseEnter
    \/ ItemClick
    \/ TimerFire
    \/ Unmount

SpecNoFlag == InitNoFlag /\ [][NextNoFlag]_vars

----------------------------------------------------------------------------
\* The vocabulary of the properties.

\* the filtered view computed from the current props
View == getFilteredItems(props)

\* the 0-based indexes of the selectable items of a view
SelectableIndexes(view, sel) == {i \in 0..(Len(view) - 1) : view[i + 1].id \in sel}

\* the k-th smallest element of a finite set of numbers
KthSmallest(S, k) == CHOOSE x \in S : Cardinality({y \in S : y <= x}) = k

\* label starts with value, whatever the letter case
StartsWithIgnoringCase(label, value) ==
    /\ Len(value) <= Len(label)
    /\ \A i \in 1..Len(value) : toLowerCaseChar(label[i]) = toLowerCaseChar(value[i])

\* the last step was the literal Enter keystroke
PressedEnter == lastEvent = "Enter" /\ eventArg = EnterKeyCode

\* the step is the literal Enter keystroke
PressesEnter == lastEvent' = "Enter" /\ eventArg' = EnterKeyCode

----------------------------------------------------------------------------
\* C1

\* hi is absent or an index of the filtered view of props p
InRange(hi, p) ==
    hi = Null \/ (0 <= hi /\ hi < Len(getFilteredItems(p)))

\* the step is a prop change after which the view is no longer than the index
PropsShrinkViewBelowIndex ==
    /\ lastEvent' = "Props"
    /\ highlightedIndex # Null
    /\ Len(getFilteredItems(props')) <= highlightedIndex

\* hi is what auto-highlight picks from an absent highlight: the first selectable
\* index of the view, whose label starts with the non-empty value
AutoHighlightedFromAbsent(p, hi) ==
    LET S == SelectableIndexes(getFilteredItems(p), p.isItemSelectable)
    IN  /\ S # {}
        /\ hi = KthSmallest(S, 1)
        /\ p.value # <<>>
        /\ StartsWithIgnoringCase(getFilteredItems(p)[hi + 1].label, p.value)

\* C1 as stated: in every reachable state highlightedIndex is absent or
\* 0 <= highlightedIndex < length of the filtered view of the current props, and
\* whenever a prop change shrinks the view to a length <= highlightedIndex,
\* highlightedIndex becomes absent.  (The state after construction has no
\* highlight; every other reachable state is the end of a step.)
C1_AbsentAfterShrink ==
    [][InRange(highlightedIndex', props')
       /\ (PropsShrinkViewBelowIndex => highlightedIndex' = Null)]_vars

\* C1 amended: highlightedIndex is always absent or an index of the current
\* filtered view; a prop change that shrinks the view to a length <=
\* highlightedIndex makes it absent, unless autoHighlight is on and the same
\* change alters the value: then it is absent or the index auto-highlight picks
\* from an absent highlight.
C1_InRangeAfterShrink ==
    [][InRange(highlightedIndex', props')
       /\ (PropsShrinkViewBelowIndex =>
             \/ highlightedIndex' = Null
             \/ /\ props'.autoHighlight
                /\ props'.value # props.value
                /\ AutoHighlightedFromAbsent(props', highlightedIndex'))]_vars

\* after a prop change the highlight sits on the last item of a view that the
\* predicate made shorter than the items collection
C1_Witness ==
    /\ lastEvent = "Props"
    /\ highlightedIndex # Null
    /\ highlightedIndex = Len(View) - 1
    /\ Len(View) < Len(props.items)

----------------------------------------------------------------------------
\* C2: pressing Enter (keyCode 13) while the menu is open and an item is
\* highlighted invokes onSelect exactly once, with (getItemValue(item), item) for
\* the item of the filtered view at highlightedIndex, and leaves isOpen false and
\* the highlight cleared.
C2_EnterSelectsHighlighted ==
    [][(PressesEnter /\ isOpenFn(props, isOpen) /\ highlightedIndex # Null) =>
          /\ selectLog' = << <<View[highlightedIndex + 1].label,
                               View[highlightedIndex + 1]>> >>
          /\ isOpen' = FALSE
          /\ highlightedIndex' = Null]_vars

\* Enter selected an item that is not the first of the view
C2_Witness ==
    /\ PressedEnter
    /\ Len(selectLog) = 1
    /\ Len(View) > 1
    /\ selectLog[1][2] = View[2]
    /\ ~isOpen
    /\ highlightedIndex = Null

----------------------------------------------------------------------------
\* C3: pressing Enter with no item highlighted never invokes onSelect; if the menu
\* is closed isOpen and highlightedIndex are unchanged, and if it is open isOpen
\* becomes false with the highlight still absent.
C3_EnterWithoutHighlight ==
    [][(PressesEnter /\ highlightedIndex = Null) =>
          /\ selectLog' = <<>>
          /\ IF isOpenFn(props, isOpen)
             THEN isOpen' = FALSE /\ highlightedIndex' = Null
             ELSE isOpen' = isOpen /\ highlightedIndex' = Null]_vars

\* Enter closed an open menu without a selection
C3_Witness ==
    /\ PressedEnter
    /\ selectLog = <<>>
    /\ visLog = <<FALSE>>
    /\ highlightedIndex = Null

----------------------------------------------------------------------------
\* C4: after Escape, whatever the state before (closed or open, highlight or
\* none, open flag supplied or not, ignore-blur set or not), isOpen is false and
\* the highlight is absent.
C4_EscapeCloses ==
    lastEvent = "Escape" => (~isOpen /\ highlightedIndex = Null)

\* Escape closed the menu while the caller supplies open = true
C4_Witness ==
    /\ lastEvent = "Escape"
    /\ props.open = "true"
    /\ visLog = <<FALSE>>

----------------------------------------------------------------------------
\* C5

\* the selectable index that follows hi cyclically (hi = Null counts as -1)
CyclicNext(view, sel, hi) ==
    LET S == SelectableIndexes(view, sel)
        dist(q) == (q - hi - 1) % Len(view)
    IN  CHOOSE q \in S : \A r \in S : dist(q) <= dist(r)

\* the highlight after j ArrowDown presses from no highlight
RECURSIVE Presses(_, _, _)
Presses(view, sel, j) ==
    IF j = 0 THEN Null ELSE arrowDownIndex(view, sel, Presses(view, sel, j - 1))

\* the presses visit the selectable indexes in increasing order, then wrap
VisitsInOrder(view, sel) ==
    LET S == SelectableIndexes(view, sel)
    IN  /\ \A j \in 1..Cardinality(S) : Presses(view, sel, j) = KthSmallest(S, j)
        /\ Presses(view, sel, Cardinality(S) + 1) = KthSmallest(S, 1)

\* C5: when the filtered view has a selectable item, an ArrowDown press moves the
\* highlight to the next selectable index after the current one (the first one
\* from no highlight), wrapping after the last; the highlighted item is
\* selectable, and repeated presses visit every selectable item in order.
C5_ArrowDownCycles ==
    [][(lastEvent' = "ArrowDown"
        /\ SelectableIndexes(View, props.isItemSelectable) # {}) =>
          /\ highlightedIndex' = CyclicNext(View, props.isItemSelectable, highlightedIndex)
          /\ View[highlightedIndex' + 1].id \in props.isItemSelectable
          /\ VisitsInOrder(View, props.isItemSelectable)]_vars

\* ArrowDown highlighted the third item of a view whose second item is not selectable
C5_Witness ==
    /\ lastEvent = "ArrowDown"
    /\ Len(View) = 3
    /\ SelectableIndexes(View, props.isItemSelectable) = {0, 2}
    /\ highlightedIndex = 2

----------------------------------------------------------------------------
\* C10

\* the step is a prop change in which maybeAutoCompleteText runs
AutoHighlightRuns ==
    /\ lastEvent' = "Props"
    /\ props'.autoHighlight
    /\ (props.value # props'.value \/ highlightedIndex = Null)

\* C10: with autoHighlight enabled, whenever the auto-highlight recomputation
\* runs with an empty value the resulting highlight is absent, and the
\* recomputation never invokes onSelect.
C10_EmptyValueNeverHighlights ==
    [][AutoHighlightRuns =>
          /\ selectLog' = <<>>
          /\ (props'.value = <<>> => highlightedIndex' = Null)]_vars

\* auto-highlight ran on an open menu with selectable items and an empty value
C10_Witness ==
    /\ lastEvent = "Props"
    /\ props.autoHighlight
    /\ props.value = <<>>
    /\ isOpen
    /\ SelectableIndexes(View, props.isItemSelectable) # {}
    /\ highlightedIndex = Null

----------------------------------------------------------------------------
\* C6: a click on a selectable item of the open menu invokes onSelect exactly
\* once with (getItemValue(item), item) for the clicked item, leaves isOpen false
\* and the highlight cleared and resets the ignore-blur flag, also when the
\* pointer set ignore-blur on entering the menu and a blur preceded the click.
C6_ClickSelectsItem ==
    [][(lastEvent' = "ItemClick" /\ isOpenFn(props, isOpen)) =>
          /\ eventArg' \in SelectableIndexes(View, props.isItemSelectable)
          /\ selectLog' = << <<View[eventArg' + 1].label, View[eventArg' + 1]>> >>
          /\ isOpen' = FALSE
          /\ highlightedIndex' = Null
          /\ ignoreBlur' = FALSE]_vars

\* the click is handled while the scroll restore scheduled by the refocus after
\* the swallowed blur is still pending, and the input kept the focus
C6_Witness ==
    /\ lastEvent = "ItemClick"
    /\ scrollTimer \in timers
    /\ focused
    /\ Len(selectLog) = 1
    /\ ~isOpen
    /\ props.open = "absent"

----------------------------------------------------------------------------
\* C7: a blur that arrives while the ignore-blur flag is true re-focuses the
\* input inside the handler, leaves isOpen and highlightedIndex unchanged,
\* invokes no onSelect (selectOnBlur or not) and sets the ignore-next-focus flag.
C7_IgnoredBlurRefocuses ==
    [][(lastEvent' = "Blur" /\ ignoreBlur) =>
          /\ focused'
          /\ pendingFocus'
          /\ isOpen' = isOpen
          /\ highlightedIndex' = highlightedIndex
          /\ selectLog' = <<>>
          /\ ignoreFocus']_vars

\* a blur was swallowed with selectOnBlur enabled and an item highlighted
C7_Witness ==
    /\ lastEvent = "Blur"
    /\ ignoreBlur
    /\ ignoreFocus
    /\ props.selectOnBlur
    /\ highlightedIndex # Null
    /\ isOpen

----------------------------------------------------------------------------
\* C8

\* the 1-based positions of the items the predicate keeps
KeptPositions(p) ==
    {i \in 1..Len(p.items) : shouldItemRender(p.shouldItemRender, p.items[i], p.value)}

\* C8: with no sortItems, the filtered view holds exactly the items for which
\* shouldItemRender(item, value) is true, in their original relative order, and
\* all the items when no predicate is supplied.
C8_ViewIsFilteredInOrder ==
    ~props.sortItems =>
        IF props.shouldItemRender.kind = "absent"
        THEN View = props.items
        ELSE /\ Len(View) = Cardinality(KeptPositions(props))
             /\ \A j \in 1..Len(View) :
                   View[j] = props.items[KthSmallest(KeptPositions(props), j)]

\* a rendered menu whose predicate kept two items or more and dropped an
\* earlier one
C8_Witness ==
    /\ ~props.sortItems
    /\ props.shouldItemRender.kind # "absent"
    /\ Len(menu) >= 2
    /\ 1 \notin KeptPositions(props)
    /\ menu[1].item = View[1]

----------------------------------------------------------------------------
\* C9: the component never mutates the caller's items collection: the array
\* the caller supplied holds the same elements in the same order.
C9_ItemsNeverMutated == props.items = supplied

----------------------------------------------------------------------------
\* C11

\* value spells "ap" in some letter case
SpellsAp(value) ==
    /\ Len(value) = 2
    /\ toLowerCaseChar(value[1]) = "a"
    /\ toLowerCaseChar(value[2]) = "p"

\* the step is a prop change after which autoHighlight is on, the items are
\* [apple, banana, cherry], all selectable and all rendered, and the value has
\* become a spelling of "ap"
ValueBecomesAp ==
    /\ lastEvent' = "Props"
    /\ props'.autoHighlight
    /\ props'.items = <<Item(1), Item(2), Item(3)>>
    /\ getFilteredItems(props') = props'.items
    /\ props'.isItemSelectable = ItemIds
    /\ props'.value # props.value
    /\ SpellsAp(props'.value)

\* C11 as stated: with autoHighlight on and items [apple, banana, cherry] all
\* selectable and rendered, once the value has become "ap" (any letter case) the
\* highlighted index is the index of apple, whatever the highlight was before.
C11_ApHighlightsApple ==
    [][ValueBecomesAp => highlightedIndex' = 0]_vars

\* C11 amended: the highlighted index is the index of apple when the highlight
\* before the change was absent or on apple, and absent when it was on banana
\* or cherry (the recomputation starts at the current highlight and tests only
\* the first selectable item from there).
C11_ApHighlightsAppleFromAbsentOrApple ==
    [][ValueBecomesAp =>
          highlightedIndex' = (IF highlightedIndex \in {Null, 0} THEN 0 ELSE Null)]_vars

\* the value became "AP" and the recomputation highlighted apple in the open menu
C11_Witness ==
    /\ lastEvent = "Props"
    /\ props.autoHighlight
    /\ props.items = <<Item(1), Item(2), Item(3)>>
    /\ props.isItemSelectable = ItemIds
    /\ props.shouldItemRender.kind = "absent"
    /\ props.value = <<"A","P">>
    /\ isOpen
    /\ highlightedIndex = 0

----------------------------------------------------------------------------
\* C12

\* after the step the caller supplies the open flag, and what the render showed
\* equals it: aria-expanded, and the menu elements (a menu is built only when
\* the flag is true, and always when it is true and the view is not empty)
VisibleDecisionIsFlag ==
    props'.open # "absent" =>
        /\ ariaExpanded' = (props'.open = "true")
        /\ (menu' # <<>> => props'.open = "true")
        /\ (props'.open = "true" /\ getFilteredItems(props') # <<>> => menu' # <<>>)

\* with the flag supplied, the open/closed test of the click handler and of the
\* keys without a handler of their own is the flag: they set isOpen only when
\* the flag is false
HandlersTestFlag ==
    (props.open # "absent" /\ lastEvent' \in {"Click", "Key"}) =>
        IF props.open = "false" /\ focused
        THEN isOpen' = TRUE
        ELSE isOpen' = isOpen

\* with the flag supplied, a focus that is not ignored sets isOpen, a blur that
\* is not ignored and Escape clear it, as they do without the flag
FocusBlurEscapeTrackIsOpen ==
    props.open # "absent" =>
        /\ (lastEvent' = "Focus" /\ ~ignoreFocus => isOpen' = TRUE)
        /\ (lastEvent' = "Blur" /\ ~ignoreBlur => isOpen' = FALSE)
        /\ (lastEvent' = "Escape" => isOpen' = FALSE)

\* C12 as stated: with the open flag supplied, the visible decision (menu
\* rendered, aria-expanded, the handlers' test) equals the flag after every
\* event, and isOpen is updated by focus, blur, Escape and Enter as if the flag
\* were not supplied (without the flag isOpen is false after every Enter).
C12_FlagOverridesAndStateTracks ==
    [][/\ VisibleDecisionIsFlag
       /\ HandlersTestFlag
       /\ FocusBlurEscapeTrackIsOpen
       /\ (props.open # "absent" /\ PressesEnter => isOpen' = FALSE)]_vars

\* C12 amended: as stated for the visible decision and for focus, blur and
\* Escape; Enter tests the flag: with the flag true it sets isOpen false, with
\* the flag false it leaves isOpen and highlightedIndex unchanged and invokes
\* no onSelect.
C12_FlagOverridesEnterTestsFlag ==
    [][/\ VisibleDecisionIsFlag
       /\ HandlersTestFlag
       /\ FocusBlurEscapeTrackIsOpen
       /\ (props.open = "true" /\ PressesEnter => isOpen' = FALSE)
       /\ (props.open = "false" /\ PressesEnter =>
              /\ isOpen' = isOpen
              /\ highlightedIndex' = highlightedIndex
              /\ selectLog' = <<>>)]_vars

\* a focus set isOpen while the caller keeps the menu hidden
C12_Witness ==
    /\ lastEvent = "Focus"
    /\ props.open = "false"
    /\ isOpen
    /\ visLog = <<TRUE>>
    /\ ~ariaExpanded
    /\ menu = <<>>

----------------------------------------------------------------------------
\* C13

\* the step calls onMenuVisibilityChange once with the new visibility when the
\* displayed/hidden decision of the render changed, and not at all otherwise
ReportsVisibility ==
    visLog' = (IF ariaExpanded' # ariaExpanded THEN <<ariaExpanded'>> ELSE <<>>)

----------------------------------------------------------------------------
\* C14: at most one deferred scroll-restore callback is pending at any time,
\* and it is the one _scrollTimer names; once the component is unmounted no
\* callback is pending, the handle is cleared and no callback runs.
C14_OneTimerNoneAfterUnmount ==
    /\ Cardinality(timers) <= 1
    /\ timers \subseteq {scrollTimer}
    /\ (~mounted => timers = {} /\ scrollTimer = Null /\ timerLog = <<>>)

\* a blur was swallowed while the callback of an earlier ignored focus is
\* still pending: the focus that follows has to cancel it
C14_Witness ==
    /\ lastEvent = "Blur"
    /\ pendingFocus
    /\ ignoreFocus
    /\ scrollTimer # Null
    /\ timers = {scrollTimer}

----------------------------------------------------------------------------
\* C15: a blur received while the ignore-blur flag is false sets isOpen false
\* and clears the highlight; it invokes onSelect, once and for the item
\* highlighted when the blur arrived, exactly when selectOnBlur is enabled and a
\* highlight existed; and it invokes the caller's inputProps.onBlur, if any, once.
C15_BlurClosesAndSelects ==
    [][(lastEvent' = "Blur" /\ ~ignoreBlur) =>
          /\ isOpen' = FALSE
          /\ highlightedIndex' = Null
          /\ selectLog' =
                (IF props.selectOnBlur /\ highlightedIndex # Null
                 THEN << <<View[highlightedIndex + 1].label, View[highlightedIndex + 1]>> >>
                 ELSE <<>>)
          /\ extLog' = (IF props.inputProps.onBlur THEN <<"onBlur">> ELSE <<>>)]_vars

\* a blur selected the highlighted item and reached the caller's onBlur
C15_Witness ==
    /\ lastEvent = "Blur"
    /\ ~focused
    /\ props.selectOnBlur
    /\ Len(selectLog) = 1
    /\ extLog = <<"onBlur">>
    /\ visLog = <<FALSE>>

----------------------------------------------------------------------------
\* C16: the ignore-next-focus flag is one-shot.  The focus event that follows
\* an ignored blur leaves isOpen and highlightedIndex unchanged, does not invoke
\* the caller's onFocus and resets the flag; every focus received while the
\* flag is false sets isOpen and invokes the caller's onFocus, if any; and the
\* flag is set only while the focus event of an ignored blur is outstanding, so
\* a focus after a normal blur opens the menu.
C16_IgnoreFocusIsOneShot ==
    [][/\ (lastEvent' = "Focus" /\ pendingFocus =>
              /\ isOpen' = isOpen
              /\ highlightedIndex' = highlightedIndex
              /\ extLog' = <<>>
              /\ ~ignoreFocus')
       /\ (lastEvent' = "Focus" /\ ~ignoreFocus =>
              /\ isOpen' = TRUE
              /\ extLog' = (IF props.inputProps.onFocus THEN <<"onFocus">> ELSE <<>>)
              /\ ~ignoreFocus')
       /\ (ignoreFocus' => pendingFocus')
       /\ (lastEvent' = "Focus" /\ ~focused => isOpen' = TRUE)]_vars

\* the focus after an ignored blur was swallowed although the caller supplies
\* onFocus and the internal isOpen is false
C16_Witness ==
    /\ lastEvent = "Focus"
    /\ scrollTimer # Null
    /\ scrollOffset = "null"
    /\ ~ignoreFocus
    /\ props.inputProps.onFocus
    /\ extLog = <<>>
    /\ ~isOpen

----------------------------------------------------------------------------
\* C17

\* a present highlightedIndex refers to a selectable item of the filtered view
HighlightIsSelectable ==
    highlightedIndex # Null =>
        highlightedIndex \in SelectableIndexes(View, props.isItemSelectable)

\* every onSelect call of the last step passed a selectable item
SelectedIsSelectable ==
    \A k \in 1..Len(selectLog) : selectLog[k][2].id \in props.isItemSelectable

\* C17: in every reachable state a present highlightedIndex refers to an item
\* of the filtered view for which isItemSelectable is true, and every onSelect
\* call of the last step (by Enter, by a click or by selectOnBlur) passed an
\* item for which isItemSelectable is true.
C17_OnlySelectableHighlightedOrSelected ==
    HighlightIsSelectable /\ SelectedIsSelectable

----------------------------------------------------------------------------
\* C18: the interaction state is closed, open without a highlight, or open with
\* a highlight: as long as the caller supplies no open flag, isOpen = false
\* implies that highlightedIndex is absent.
C18_ClosedHasNoHighlight ==
    props.open = "absent" => (~isOpen => highlightedIndex = Null)

----------------------------------------------------------------------------
\* C19: ArrowDown and ArrowUp leave isOpen and highlightedIndex unchanged
\* whenever the filtered view is empty or holds no selectable item, whatever
\* the state before (closed or open, with or without a highlight).
C19_ArrowsNoOpWithoutSelectable ==
    [][(lastEvent' \in {"ArrowDown", "ArrowUp"}
        /\ SelectableIndexes(View, props.isItemSelectable) = {}) =>
          /\ isOpen' = isOpen
          /\ highlightedIndex' = highlightedIndex]_vars

----------------------------------------------------------------------------
\* C20: whenever the filtered view holds at least one selectable item, after an
\* ArrowDown or ArrowUp press isOpen is true and a selectable item is
\* highlighted, whatever the state before (closed or open, highlight absent or
\* present, the only selectable item already highlighted).
C20_ArrowsOpenAndHighlight ==
    [][(lastEvent' \in {"ArrowDown", "ArrowUp"}
        /\ SelectableIndexes(View, props.isItemSelectable) # {}) =>
          /\ isOpen' = TRUE
          /\ highlightedIndex' \in SelectableIndexes(View, props.isItemSelectable)]_vars

----------------------------------------------------------------------------
\* C21: a keydown of a key other than ArrowDown, ArrowUp, Enter, Escape and Tab
\* received while the menu is closed leads to isOpen true with no highlight; the
\* same keydown received while the menu is open leaves isOpen and
\* highlightedIndex unchanged.
C21_OtherKeyOpensWithoutHighlight ==
    [][lastEvent' = "Key" =>
          IF ~isOpenFn(props, isOpen)
          THEN isOpen' = TRUE /\ highlightedIndex' = Null
          ELSE isOpen' = isOpen /\ highlightedIndex' = highlightedIndex]_vars

----------------------------------------------------------------------------
\* C22: with no open flag supplied, the ignore-blur flag is false in every
\* state in which the menu is closed, so a blur received while the menu is
\* closed is never swallowed: it is not answered by a re-focus and the input
\* loses the focus.
C22_ClosedNeverIgnoresBlur ==
    [][/\ (props'.open = "absent" /\ ~isOpen' => ~ignoreBlur')
       /\ (props.open = "absent" /\ ~isOpen /\ lastEvent' = "Blur" =>
              ~pendingFocus' /\ ~focused')]_vars

\* a blur of the closed menu took the focus away while the scroll restore of
\* an earlier swallowed blur is still pending
C22_Witness ==
    /\ lastEvent = "Blur"
    /\ props.open = "absent"
    /\ ~focused
    /\ ~isOpen
    /\ visLog = <<>>
    /\ scrollTimer # Null
    /\ scrollTimer \in timers

====
